---- MODULE Spec2Model ----
(***************************************************************************)
(* Issue Tracker API (backend/main.py): the in-memory issue store and its  *)
(* four request handlers create_issue, get_issue, update_issue, get_issues.*)
(*                                                                         *)
(* Python values:                                                          *)
(*   Optional[T]  a sequence of length <= 1: None is <<>>, a value v is    *)
(*                <<v>> (Some(v));                                         *)
(*   str          a sequence of code points, "Ab" is <<65, 98>>;           *)
(*   datetime     an integer number of clock ticks;                        *)
(*   uuid4()      a fresh identifier, the number of the generated uuid.    *)
(*                                                                         *)
(* resp is the response of the last request, with the request in it.       *)
(* Two history variables state what a request did:                         *)
(*   before   issues_db as the last request found it;                      *)
(*   created  the records create returned whose id no successful update    *)
(*            has targeted since.                                          *)
(***************************************************************************)
EXTENDS Integers, Sequences, FiniteSets, TLC

VARIABLES issues_db, clock, uuids, resp, before, created

vars == <<issues_db, clock, uuids, resp, before, created>>

----------------------------------------------------------------------------
(* Bounds of the model *)

MaxIssues == 2

MaxClock == 1

MaxListed == 3

----------------------------------------------------------------------------
(* Optional values and strings *)

None == <<>>

Some(v) == <<v>>

Val(o) == o[1]

\* str.lower()
lower(s) == [i \in 1..Len(s) |-> IF s[i] >= 65 /\ s[i] <= 90 THEN s[i] + 32 ELSE s[i]]

\* the substring test  sub in s
In(sub, s) == \E k \in 0..(Len(s) - Len(sub)) : SubSeq(s, k + 1, k + Len(sub)) = sub

\* a < b on str (code point order), and on the sort keys
RECURSIVE SeqLess(_, _)
SeqLess(a, b) ==
    IF b = <<>> THEN FALSE
    ELSE IF a = <<>> THEN TRUE
    ELSE IF Head(a) # Head(b) THEN Head(a) < Head(b)
    ELSE SeqLess(Tail(a), Tail(b))

\* truth value of an Optional[str]: None and "" are falsy
Truthy(o) == o # None /\ Val(o) # <<>>

----------------------------------------------------------------------------
(* Enums and field constraints *)

IssueStatus == {"open", "in-progress", "closed"}

IssuePriority == {"low", "medium", "high", "critical"}

TitleMinLen == 1

TitleMaxLen == 200

DescriptionMaxLen == 2000

AssigneeMaxLen == 100

Fields == {"title", "description", "status", "priority", "assignee"}

\* an Optional[str] field with max_length
OptStr(o, maxLen) == IF o = None THEN TRUE ELSE Len(Val(o)) <= maxLen

\* an Optional[Enum] field
OptEnum(o, enum) == IF o = None THEN TRUE ELSE Val(o) \in enum

\* IssueCreate: title required, status and priority not Optional
ValidCreate(body) ==
    /\ DOMAIN body \subseteq Fields
    /\ "title" \in DOMAIN body
    /\ body.title # None
    /\ Len(Val(body.title)) >= TitleMinLen /\ Len(Val(body.title)) <= TitleMaxLen
    /\ "description" \in DOMAIN body => OptStr(body.description, DescriptionMaxLen)
    /\ "status" \in DOMAIN body => body.status # None /\ Val(body.status) \in IssueStatus
    /\ "priority" \in DOMAIN body => body.priority # None /\ Val(body.priority) \in IssuePriority
    /\ "assignee" \in DOMAIN body => OptStr(body.assignee, AssigneeMaxLen)

\* IssueUpdate: every field Optional, the constraints apply to values other than None
ValidUpdate(patch) ==
    /\ DOMAIN patch \subseteq Fields
    /\ "title" \in DOMAIN patch =>
          IF patch.title = None THEN TRUE
          ELSE Len(Val(patch.title)) >= TitleMinLen /\ Len(Val(patch.title)) <= TitleMaxLen
    /\ "description" \in DOMAIN patch => OptStr(patch.description, DescriptionMaxLen)
    /\ "status" \in DOMAIN patch => OptEnum(patch.status, IssueStatus)
    /\ "priority" \in DOMAIN patch => OptEnum(patch.priority, IssuePriority)
    /\ "assignee" \in DOMAIN patch => OptStr(patch.assignee, AssigneeMaxLen)

\* issue_data.model_dump(): the five fields, defaults for the ones not sent
model_dump(body) ==
    [title       |-> body.title,
     description |-> IF "description" \in DOMAIN body THEN body.description ELSE None,
     status      |-> IF "status" \in DOMAIN body THEN body.status ELSE Some("open"),
     priority    |-> IF "priority" \in DOMAIN body THEN body.priority ELSE Some("medium"),
     assignee    |-> IF "assignee" \in DOMAIN body THEN body.assignee ELSE None]

----------------------------------------------------------------------------
(* Requests the clients send *)

\* the texts of the requests: "a", "A", "b", "B", "ab" as code points
s_a == <<97>>

s_A == <<65>>

s_b == <<98>>

s_B == <<66>>

s_ab == <<97, 98>>

\* the bodies of POST /issues; the last one fails validation (empty title)
CreateBodies ==
    { [title |-> Some(s_ab)],
      [title |-> Some(s_A), description |-> Some(s_b), status |-> Some("closed"),
       priority |-> Some("high"), assignee |-> Some(s_B)],
      [title |-> Some(<<>>)] }

\* {"title": null, "status": null, "priority": null}
null_patch == [title |-> None, status |-> None, priority |-> None]

\* the bodies of PUT /issues/{id}; the last one fails validation (empty title)
UpdatePatches ==
    { <<>>,
      [priority |-> Some("high")],
      null_patch,
      [title |-> Some(s_B), status |-> Some("in-progress"), priority |-> Some("high"),
       assignee |-> None],
      [title |-> Some(<<>>)] }

----------------------------------------------------------------------------
(* The store *)

\* find, looking at the first record only
find_first_only(db, issue_id) == IF db # <<>> /\ db[1].id = issue_id THEN 1 ELSE 0

\* next((issue for issue in issues_db if issue.id == issue_id), None), as an index (0: None)
find(db, issue_id) ==
    IF \E i \in 1..Len(db) : db[i].id = issue_id
    THEN CHOOSE i \in 1..Len(db) : db[i].id = issue_id /\ \A j \in 1..(i - 1) : db[j].id # issue_id
    ELSE 0

\* a reading of datetime.now() after a reading of t: the same tick or the next one
\* (the clock does not go backwards, and stops at MaxClock)
now(t) == {u \in t..(t + 1) : u <= MaxClock}

NoResp == [op |-> "none", code |-> 0]

Init ==
    /\ issues_db = <<>>
    /\ clock = 0
    /\ uuids = 0
    /\ resp = NoResp
    /\ before = <<>>
    /\ created = {}

\* an identifier that is not fresh: the last one again
uuid4_reused == IF uuids = 0 THEN 1 ELSE uuids

\* str(uuid.uuid4())
uuid4 == uuids + 1

\* POST /issues
create_issue(body) ==
    /\ ValidCreate(body)
    /\ \E t1 \in now(clock) : \E t2 \in now(t1) :
         LET d == model_dump(body)
             new_issue == [id |-> uuid4, created_at |-> t1, updated_at |-> t2,
                           title |-> d.title, description |-> d.description,
                           status |-> d.status, priority |-> d.priority,
                           assignee |-> d.assignee]
         IN /\ issues_db' = Append(issues_db, new_issue)
            /\ clock' = t2
            /\ uuids' = uuid4
            /\ resp' = [op |-> "create", code |-> 201, body |-> body, issue |-> new_issue]
            /\ created' = created \cup {new_issue}
    /\ before' = issues_db

\* GET /issues/{issue_id}
get_issue(issue_id) ==
    /\ LET i == find(issues_db, issue_id)
       IN resp' = IF i = 0
                  THEN [op |-> "get", code |-> 404, id |-> issue_id]
                  ELSE [op |-> "get", code |-> 200, id |-> issue_id, issue |-> issues_db[i]]
    /\ before' = issues_db
    /\ UNCHANGED <<issues_db, clock, uuids, created>>

\* setattr of every field of IssueUpdate, as model_dump() without exclude_unset gives
setattrs_unset_too(issue, update_data) ==
    [f \in DOMAIN issue |->
        IF f \in Fields THEN (IF f \in DOMAIN update_data THEN update_data[f] ELSE None)
        ELSE issue[f]]

\* for field, value in update_data.items(): setattr(issue, field, value)
setattrs(issue, update_data) ==
    [f \in DOMAIN issue |-> IF f \in DOMAIN update_data THEN update_data[f] ELSE issue[f]]

\* updated_at set only when the patch names a field
apply_update_if_any(issue, update_data, t) ==
    IF DOMAIN update_data = {} THEN issue
    ELSE [setattrs(issue, update_data) EXCEPT !.updated_at = t]

\* the record after update_issue's assignments: the fields of the patch, then updated_at
apply_update(issue, update_data, t) == [setattrs(issue, update_data) EXCEPT !.updated_at = t]

\* PUT /issues/{issue_id}
update_issue(issue_id, patch) ==
    /\ ValidUpdate(patch)
    /\ before' = issues_db
    /\ LET i == find(issues_db, issue_id)
       IN IF i = 0
          THEN /\ resp' = [op |-> "update", code |-> 404, id |-> issue_id, patch |-> patch]
               /\ UNCHANGED <<issues_db, clock, uuids, created>>
          ELSE \E t \in now(clock) :
                 LET issue == apply_update(issues_db[i], patch, t)
                 IN /\ issues_db' = [issues_db EXCEPT ![i] = issue]
                    /\ clock' = t
                    /\ resp' = [op |-> "update", code |-> 200, id |-> issue_id,
                                patch |-> patch, issue |-> issue]
                    /\ created' = {r \in created : r.id # issue_id}
                    /\ UNCHANGED uuids

----------------------------------------------------------------------------
(* GET /issues: search, filter, sort, paginate *)

PageMin == 1

PageSizeMin == 1

PageSizeMax == 100

\* the Query(...) constraints on page and page_size
ValidQuery(q) ==
    /\ q.page >= PageMin
    /\ q.page_size >= PageSizeMin /\ q.page_size <= PageSizeMax
    /\ OptEnum(q.status, IssueStatus)
    /\ OptEnum(q.priority, IssuePriority)

\* the condition of the search comprehension, for an issue whose title is a str
matches_search(issue, search_lower) ==
    \/ In(search_lower, lower(Val(issue.title)))
    \/ Truthy(issue.description) /\ In(search_lower, lower(Val(issue.description)))
    \/ Truthy(issue.assignee) /\ In(search_lower, lower(Val(issue.assignee)))

\* issue.assignee and assignee.lower() in issue.assignee.lower()
matches_assignee(issue, assignee) ==
    Truthy(issue.assignee) /\ In(lower(assignee), lower(Val(issue.assignee)))

\* status_order.get(x.status, 0)
status_order(status) ==
    IF status = Some("open") THEN 1
    ELSE IF status = Some("in-progress") THEN 2
    ELSE IF status = Some("closed") THEN 3
    ELSE 0

\* priority_order.get(x.priority, 0)
priority_order(priority) ==
    IF priority = Some("low") THEN 1
    ELSE IF priority = Some("medium") THEN 2
    ELSE IF priority = Some("high") THEN 3
    ELSE IF priority = Some("critical") THEN 4
    ELSE 0

\* the key= lambda of each sort_by branch, as a sequence of integers
\* (a rank or a timestamp is a sequence of one integer); title is a str here
sort_key(issue, sort_by) ==
    IF sort_by = "title" THEN lower(Val(issue.title))
    ELSE IF sort_by = "status" THEN <<status_order(issue.status)>>
    ELSE IF sort_by = "priority" THEN <<priority_order(issue.priority)>>
    ELSE IF sort_by = "assignee" THEN (IF Truthy(issue.assignee) THEN Val(issue.assignee) ELSE <<>>)
    ELSE IF sort_by = "created_at" THEN <<issue.created_at>>
    ELSE <<issue.updated_at>>

reversed(s) == [i \in 1..Len(s) |-> s[Len(s) + 1 - i]]

\* x put into the sorted list after every element whose key is not greater
insort(sorted, x, sort_by) ==
    LET p == Cardinality({i \in 1..Len(sorted) :
                 ~SeqLess(sort_key(x, sort_by), sort_key(sorted[i], sort_by))})
    IN SubSeq(sorted, 1, p) \o <<x>> \o SubSeq(sorted, p + 1, Len(sorted))

\* the stable ascending sort that list.sort runs
RECURSIVE stable_sort(_, _)
stable_sort(list, sort_by) ==
    IF list = <<>> THEN <<>>
    ELSE insort(stable_sort(SubSeq(list, 1, Len(list) - 1), sort_by), list[Len(list)], sort_by)

\* list.sort(key=..., reverse=reverse): with reverse the list is reversed, sorted
\* stably, and reversed again
list_sort(list, sort_by, reverse) ==
    IF reverse THEN reversed(stable_sort(reversed(list), sort_by))
    ELSE stable_sort(list, sort_by)

\* list[start:end]
slice(list, start, end) ==
    LET hi == IF end < Len(list) THEN end ELSE Len(list)
    IN IF start >= hi THEN <<>> ELSE SubSeq(list, start + 1, hi)

\* issue.title.lower() raises AttributeError on a title that is None
search_raises(db, q) == Truthy(q.search) /\ \E i \in 1..Len(db) : db[i].title = None

sort_raises(list, q) == q.sort_by = "title" /\ \E i \in 1..Len(list) : list[i].title = None

\* filtered_issues after the search and the three filters
filter_issues(db, q) ==
    LET searched == IF Truthy(q.search)
                    THEN SelectSeq(db, LAMBDA issue : matches_search(issue, lower(Val(q.search))))
                    ELSE db
        by_status == IF q.status # None
                     THEN SelectSeq(searched, LAMBDA issue : issue.status = q.status)
                     ELSE searched
        by_priority == IF q.priority # None
                       THEN SelectSeq(by_status, LAMBDA issue : issue.priority = q.priority)
                       ELSE by_status
    IN IF Truthy(q.assignee)
       THEN SelectSeq(by_priority, LAMBDA issue : matches_assignee(issue, Val(q.assignee)))
       ELSE by_priority

\* filtered_issues after the sort (no title is None here)
sorted_issues(db, q) == list_sort(filter_issues(db, q), q.sort_by, q.sort_order = "desc")

\* the body of get_issues: the response, or the exception that ends the request
list_issues(db, q) ==
    IF search_raises(db, q) THEN [op |-> "list", code |-> 500, query |-> q]
    ELSE LET filtered == filter_issues(db, q)
         IN IF sort_raises(filtered, q) THEN [op |-> "list", code |-> 500, query |-> q]
            ELSE LET sorted == sorted_issues(db, q)
                     total_count == Len(sorted)
                     start_index == (q.page - 1) * q.page_size
                     end_index == start_index + q.page_size
                 IN [op |-> "list", code |-> 200, query |-> q,
                     issues |-> slice(sorted, start_index, end_index),
                     page |-> q.page, pageSize |-> q.page_size,
                     totalCount |-> total_count,
                     totalPages |-> (total_count + q.page_size - 1) \div q.page_size]

\* GET /issues
get_issues(q) ==
    /\ ValidQuery(q)
    /\ resp' = list_issues(issues_db, q)
    /\ before' = issues_db
    /\ UNCHANGED <<issues_db, clock, uuids, created>>

----------------------------------------------------------------------------
(* The service: requests are served one at a time, each handler runs to its *)
(* return, and the response goes back to the client before the next one.    *)

\* the response leaves the handler for the client
respond ==
    /\ resp # NoResp
    /\ resp' = NoResp
    /\ before' = issues_db
    /\ UNCHANGED <<issues_db, clock, uuids, created>>

\* no response is in flight: the next request can be served
idle == resp = NoResp

\* GET /issues without parameters: the defaults of the Query(...) declarations
default_query ==
    [search |-> None, status |-> None, priority |-> None, assignee |-> None,
     sort_by |-> "updated_at", sort_order |-> "desc", page |-> 1, page_size |-> 10]

\* the list requests of Spec; the last one fails validation (page_size 0)
Queries ==
    { default_query,
      [default_query EXCEPT !.search = Some(s_a)],
      [default_query EXCEPT !.sort_by = "title"],
      [default_query EXCEPT !.priority = Some("high"), !.sort_by = "priority"],
      [default_query EXCEPT !.page_size = 0] }

Next ==
    \/ \E body \in CreateBodies : idle /\ Len(issues_db) < MaxIssues /\ create_issue(body)
    \/ \E issue_id \in 1..(MaxIssues + 1) : idle /\ get_issue(issue_id)
    \/ \E issue_id \in 1..(MaxIssues + 1) : \E patch \in UpdatePatches :
          idle /\ update_issue(issue_id, patch)
    \/ \E q \in Queries : idle /\ get_issues(q)
    \/ respond

Spec == Init /\ [][Next]_vars

----------------------------------------------------------------------------
(* Properties of the store, checked under Spec *)

ids(db) == {db[i].id : i \in 1..Len(db)}

\* C1: every stored issue has a non-empty text title, a status of IssueStatus and
\* a priority of IssuePriority; neither title, status nor priority is ever None.
C1_FieldsNeverNull ==
    \A i \in 1..Len(issues_db) :
        LET issue == issues_db[i]
        IN /\ issue.title # None /\ Val(issue.title) # <<>>
           /\ issue.status # None /\ Val(issue.status) \in IssueStatus
           /\ issue.priority # None /\ Val(issue.priority) \in IssuePriority

\* C2: a successful update changes, on the record with that id, only the fields
\* present in the patch and updated_at: the omitted fields, id and created_at keep
\* their values, and every other record of the collection is unchanged.
C2_UpdateFrame ==
    (resp.op = "update" /\ resp.code = 200) =>
        LET i == find(before, resp.id)
        IN /\ i # 0
           /\ Len(issues_db) = Len(before)
           /\ \A j \in 1..Len(before) : j # i => issues_db[j] = before[j]
           /\ \A f \in Fields \ DOMAIN resp.patch : issues_db[i][f] = before[i][f]
           /\ \A f \in DOMAIN resp.patch : issues_db[i][f] = resp.patch[f]
           /\ issues_db[i].id = before[i].id
           /\ issues_db[i].created_at = before[i].created_at
           /\ resp.issue = issues_db[i]

\* an update of {priority: high} has kept the other fields of a record of the first create body
C2_Witness ==
    /\ resp.op = "update" /\ resp.code = 200
    /\ resp.patch = [priority |-> Some("high")]
    /\ Len(issues_db) = 2
    /\ resp.issue.title = Some(s_ab) /\ resp.issue.status = Some("open")
    /\ resp.issue.priority = Some("high")

\* C3: get and update answer NotFound exactly when no record has the id, and a
\* request that fails (and every get) leaves the collection as it was.
C3_NotFoundExact ==
    (resp.op \in {"get", "update"}) =>
        /\ resp.code \in {200, 404}
        /\ (resp.code = 404) <=> (resp.id \notin ids(before))
        /\ resp.code = 404 => issues_db = before
        /\ resp.op = "get" => issues_db = before

\* an update of an unknown id was refused while the collection held records
C3_Witness ==
    /\ resp.op = "update" /\ resp.code = 404
    /\ Len(issues_db) = 2
    /\ resp.id \notin ids(issues_db)

\* C4: a record that create returned is what get returns for its id as long as no
\* update has targeted that id; the ids of the collection are pairwise distinct
\* and no created record is ever removed.
C4_RoundTrip ==
    /\ \A r \in created :
          LET i == find(issues_db, r.id) IN i # 0 /\ issues_db[i] = r
    /\ \A i, j \in 1..Len(issues_db) : i # j => issues_db[i].id # issues_db[j].id
    /\ \A n \in 1..uuids : n \in ids(issues_db)
    /\ (resp.op = "get" /\ \E r \in created : r.id = resp.id) =>
          resp.code = 200 /\ resp.issue \in created

\* the second record is read back unchanged after an update of the first one
C4_Witness ==
    /\ resp.op = "get" /\ resp.code = 200 /\ resp.id = 2
    /\ resp.issue \in created
    /\ \A r \in created : r.id # 1
    /\ Len(issues_db) = 2

\* C5: created_at <= updated_at for every issue; created_at never changes; a
\* successful update sets updated_at to the time it reads, whatever the patch, so
\* updated_at never decreases while the clock does not go backwards.
C5_Timestamps ==
    /\ \A i \in 1..Len(issues_db) : issues_db[i].created_at <= issues_db[i].updated_at
    /\ Len(before) <= Len(issues_db)
    /\ \A i \in 1..Len(before) :
          /\ issues_db[i].created_at = before[i].created_at
          /\ issues_db[i].updated_at >= before[i].updated_at
    /\ (resp.op = "update" /\ resp.code = 200) =>
          /\ resp.issue.updated_at = clock
          /\ issues_db[find(before, resp.id)].updated_at = clock

\* an empty patch has moved updated_at past created_at
C5_Witness ==
    /\ resp.op = "update" /\ resp.code = 200
    /\ DOMAIN resp.patch = {}
    /\ resp.issue.created_at < resp.issue.updated_at
    /\ resp.issue.updated_at = clock

\* C9: every request ends in success or in NotFound: no request fails in any
\* other way.
C9_SuccessOrNotFound == resp.op # "none" => resp.code \in {200, 201, 404}

\* C10: right after create, created_at and updated_at of the new record hold the
\* same timestamp, the record is the last of the collection, and status and
\* priority are open and medium when the request leaves them out.
C10_CreateStamps ==
    resp.op = "create" =>
        /\ resp.issue.created_at = resp.issue.updated_at
        /\ issues_db # <<>> /\ issues_db[Len(issues_db)] = resp.issue
        /\ "status" \notin DOMAIN resp.body => resp.issue.status = Some("open")
        /\ "priority" \notin DOMAIN resp.body => resp.issue.priority = Some("medium")

----------------------------------------------------------------------------
(* The list specification: a collection of up to MaxListed records, some    *)
(* with the fields an update set to null, and the list requests             *)

ListBodies ==
    { [title |-> Some(s_ab)],
      [title |-> Some(s_A), description |-> Some(s_b), status |-> Some("closed"),
       priority |-> Some("high"), assignee |-> Some(s_B)],
      [title |-> Some(s_a), status |-> Some("closed"), assignee |-> Some(<<>>)] }

SortFields == {"title", "status", "priority", "assignee", "created_at", "updated_at", "id"}

\* every combination of the search and the three filters
FilterQueries ==
    [search : {None, Some(<<>>), Some(s_a), Some(s_B)}, status : {None, Some("closed")},
     priority : {None, Some("high")}, assignee : {None, Some(<<>>), Some(s_b)},
     sort_by : {"updated_at"}, sort_order : {"desc"}, page : {1}, page_size : {10}]

\* every sort_by, a name that is no field included, in both orders and in an unknown one
SortQueries ==
    [search : {None, Some(s_b)}, status : {None}, priority : {None}, assignee : {None},
     sort_by : SortFields, sort_order : {"asc", "desc", "up"}, page : {1}, page_size : {10}]

\* the pages of a list, past the last one
PageQueries ==
    [search : {None, Some(s_a)}, status : {None, Some("closed")}, priority : {None},
     assignee : {None}, sort_by : {"priority"}, sort_order : {"asc"},
     page : 1..(MaxListed + 1), page_size : 1..2]

ListQueries == FilterQueries \cup SortQueries \cup PageQueries

NextList ==
    \/ \E body \in ListBodies : idle /\ Len(issues_db) < MaxListed /\ create_issue(body)
    \/ \E issue_id \in 1..(MaxListed + 1) : idle /\ get_issue(issue_id)
    \/ \E issue_id \in 1..(MaxListed + 1) : idle /\ update_issue(issue_id, null_patch)
    \/ \E q \in ListQueries : idle /\ get_issues(q)
    \/ respond

SpecList == Init /\ [][NextList]_vars

----------------------------------------------------------------------------
(* Properties of the list, checked under SpecList *)

\* a criterion of the request counts when it is given and not empty
given(o) == o # None /\ Val(o) # <<>>

\* text s holds the term, whatever the case of the letters
holds(s, term) == s # None /\ In(lower(term), lower(Val(s)))

\* the record satisfies every criterion of the request
satisfies(issue, q) ==
    /\ given(q.search) =>
          \/ holds(issue.title, Val(q.search))
          \/ holds(issue.description, Val(q.search))
          \/ holds(issue.assignee, Val(q.search))
    /\ q.status # None => issue.status = q.status
    /\ q.priority # None => issue.priority = q.priority
    /\ given(q.assignee) => holds(issue.assignee, Val(q.assignee))

matching(db, q) == {i \in 1..Len(db) : satisfies(db[i], q)}

\* the pages 1..n of the request, one after the other
RECURSIVE pages(_, _, _)
pages(db, q, n) ==
    IF n = 0 THEN <<>>
    ELSE pages(db, q, n - 1) \o list_issues(db, [q EXCEPT !.page = n]).issues

range(s) == {s[i] : i \in 1..Len(s)}

\* the pages of the request in flight cover the filtered and sorted sequence once
pages_complete(db, q) ==
    LET first == list_issues(db, [q EXCEPT !.page = 1])
        total == first.totalPages
    IN /\ total * q.page_size >= first.totalCount
       /\ (total - 1) * q.page_size < first.totalCount
       /\ pages(db, q, total) = sorted_issues(db, q)
       /\ Len(pages(db, q, total)) = Cardinality(ids(pages(db, q, total)))
       /\ range(pages(db, q, total)) = {db[i] : i \in matching(db, q)}
       /\ \A p \in (total + 1)..(total + 2) :
             LET r == list_issues(db, [q EXCEPT !.page = p])
             IN r.code = 200 /\ r.issues = <<>>

\* C6: the pages 1..totalPages of a list, one after the other, are the filtered and
\* sorted sequence with every matching record exactly once, totalPages is
\* ceil(totalCount / page_size), and a page past totalPages is empty, not an error.
C6_Pagination ==
    resp.op = "list" => resp.code = 200 /\ pages_complete(issues_db, resp.query)

\* the key C7 names for sort_by
key_of(issue, sort_by) ==
    IF sort_by = "status"
    THEN <<IF issue.status = Some("open") THEN 1 ELSE IF issue.status = Some("in-progress") THEN 2
           ELSE IF issue.status = Some("closed") THEN 3 ELSE 0>>
    ELSE IF sort_by = "priority"
    THEN <<IF issue.priority = Some("low") THEN 1 ELSE IF issue.priority = Some("medium") THEN 2
           ELSE IF issue.priority = Some("high") THEN 3
           ELSE IF issue.priority = Some("critical") THEN 4 ELSE 0>>
    ELSE IF sort_by = "title" THEN lower(Val(issue.title))
    ELSE IF sort_by = "assignee" THEN (IF issue.assignee = None THEN <<>> ELSE Val(issue.assignee))
    ELSE IF sort_by = "created_at" THEN <<issue.created_at>>
    ELSE <<issue.updated_at>>

\* out is the stable sort of the matching records of db
stable_sorted(out, db, q) ==
    /\ range(out) = {db[i] : i \in matching(db, q)}
    /\ Len(out) = Cardinality(matching(db, q))
    /\ \A i, j \in 1..Len(out) : i < j =>
          LET ki == key_of(out[i], q.sort_by)
              kj == key_of(out[j], q.sort_by)
          IN /\ IF q.sort_order = "desc" THEN ~SeqLess(ki, kj) ELSE ~SeqLess(kj, ki)
             /\ ki = kj => find(db, out[i].id) < find(db, out[j].id)

\* C7: the sequence list produces before pagination is the stable sort of the
\* filtered records by the key of sort_by, ascending or descending: records of
\* equal key are in insertion order, whatever list requests came before.
C7_StableSort ==
    resp.op = "list" =>
        resp.code = 200 /\ stable_sorted(sorted_issues(issues_db, resp.query), issues_db, resp.query)

\* C8: the records list returns over all pages, and totalCount, are exactly the
\* records that satisfy every criterion given; a criterion not given excludes nothing.
C8_Filters ==
    resp.op = "list" =>
        /\ resp.code = 200
        /\ resp.totalCount = Cardinality(matching(issues_db, resp.query))
        /\ range(pages(issues_db, resp.query, resp.totalPages))
              = {issues_db[i] : i \in matching(issues_db, resp.query)}

\* What the list does whenever it returns: the three properties above, for every
\* request that did not end in the AttributeError.
ListPagination ==
    (resp.op = "list" /\ resp.code = 200) => pages_complete(issues_db, resp.query)

ListStableSort ==
    (resp.op = "list" /\ resp.code = 200) =>
        stable_sorted(sorted_issues(issues_db, resp.query), issues_db, resp.query)

ListFilters ==
    (resp.op = "list" /\ resp.code = 200) =>
        /\ resp.totalCount = Cardinality(matching(issues_db, resp.query))
        /\ range(pages(issues_db, resp.query, resp.totalPages))
              = {issues_db[i] : i \in matching(issues_db, resp.query)}

\* the list never changes the collection
ListReadOnly == resp.op = "list" => issues_db = before

====
